---- MODULE Spec2Model ----
(***************************************************************************)
(* Model of the Raft peer of P3/src/github.com/cmu440/raft/raft.go.        *)
(*                                                                         *)
(* Every peer is built by Make, which starts one run goroutine.  The RPC   *)
(* handlers RequestVote and AppendEntries and the local calls GetState and *)
(* Start are exported methods; they are invoked by the environment (peers, *)
(* the service, the tester) with arguments drawn from small sets.          *)
(* Each invocation in flight is a record of the bag calls, with the line   *)
(* it has reached in pc, from its arrival until its caller has the result. *)
(***************************************************************************)
EXTENDS Integers, Sequences, FiniteSets, Bags, TLC

\* ---- bounds -------------------------------------------------------------
NumPeers == 2      \* len(peers)
MaxCalls == 1      \* invocations of exported methods in flight at a time
MaxTerm  == 1      \* argument terms range over -1..MaxTerm
MaxIndex == 1      \* argument lastLogIndex ranges over 0..MaxIndex

\* ---- program constants --------------------------------------------------
FOLLOWER  == 0
CANDIDATE == 1
LEADER    == 2

Peers    == 0 .. (NumPeers - 1)
ArgTerms == (0 - 1) .. MaxTerm
ArgIdx   == 0 .. MaxIndex

VARIABLES
    currentTerm,   \* rf.currentTerm
    votedFor,      \* rf.votedFor
    logs,          \* rf.logs
    state,         \* rf.state
    voteCount,     \* rf.voteCount
    committedIndex,\* rf.committedIndex
    lastApplied,   \* rf.lastApplied
    applych,       \* rf.applych: the ApplyMsg sent on it so far
    mu,            \* rf.mu: "free", "run" (held by run) or "rpc" (held by a handler)
    runPc,         \* position of the run goroutine of each peer
    calls,         \* bag of the invocations of exported methods in flight
    crashed,       \* an unrecovered panic has terminated the process
    timerEpoch,    \* history: how many election timers the peer has armed
    firedEpoch,    \* history: the timer whose expiry made the peer CANDIDATE (0: none)
    hist,          \* history: the (currentTerm, state) pairs the peer has held
    killed         \* history: Kill has been called on the peer and has returned

vars == <<currentTerm, votedFor, logs, state, voteCount, committedIndex,
          lastApplied, applych, mu, runPc, calls, crashed, timerEpoch,
          firedEpoch, hist, killed>>

\* The fields of Raft that only the dead branches of run would write, and
\* the history of Kill.
rfVars == <<currentTerm, votedFor, logs, voteCount, committedIndex,
            lastApplied, applych, killed>>

\* heartBeatCh is a field of Raft that no statement ever makes: it keeps
\* Go's zero value, the nil channel, on which a send blocks forever.
heartBeatCh == "nil"

\* What a caller can observe of a peer at one instant.
Snapshot(r) ==
    [currentTerm |-> currentTerm[r], votedFor |-> votedFor[r],
     state |-> state[r], logs |-> logs[r],
     timerEpoch |-> timerEpoch[r], histLen |-> Len(hist[r])]

NoArgs  == [none |-> TRUE]
NoReply == [none |-> TRUE]

\* Make: the zero value of Raft with peers, me, applych and state set, and
\* the run goroutine started.
Init ==
    /\ currentTerm = [r \in Peers |-> 0]
    /\ votedFor    = [r \in Peers |-> 0]
    /\ logs        = [r \in Peers |-> <<>>]
    /\ state       = [r \in Peers |-> FOLLOWER]
    /\ voteCount   = [r \in Peers |-> 0]
    /\ committedIndex = [r \in Peers |-> 0]
    /\ lastApplied = [r \in Peers |-> 0]
    /\ applych     = [r \in Peers |-> <<>>]
    /\ mu          = [r \in Peers |-> "free"]
    /\ runPc       = [r \in Peers |-> "lock"]
    /\ calls       = EmptyBag
    /\ crashed     = FALSE
    /\ timerEpoch  = [r \in Peers |-> 0]
    /\ firedEpoch  = [r \in Peers |-> 0]
    /\ hist        = [r \in Peers |-> <<[term |-> 0, state |-> FOLLOWER]>>]
    /\ killed      = [r \in Peers |-> FALSE]

\* ---- run ----------------------------------------------------------------

\* run, lines 310-317 and 337-339: rf.mu.Lock() and the switch on rf.state,
\* read under the lock.  LEADER starts broadcastAppendEntries, whose first
\* statement is rf.mu.Lock() on the mutex run still holds, and returns;
\* CANDIDATE locks rf.mu a second time and blocks there; FOLLOWER arms the
\* election timer and waits in the select.
RunSwitch(r) ==
    /\ ~crashed
    /\ runPc[r] = "lock"
    /\ mu[r] = "free"
    /\ mu' = [mu EXCEPT ![r] = "run"]
    /\ runPc' = [runPc EXCEPT ![r] =
                    IF state[r] = LEADER THEN "done"
                    ELSE IF state[r] = CANDIDATE THEN "candidate_lock"
                    ELSE "follower_select"]
    /\ timerEpoch' = [timerEpoch EXCEPT ![r] =
                    IF state[r] = FOLLOWER THEN @ + 1 ELSE @]
    /\ UNCHANGED <<rfVars, state, calls, crashed, firedEpoch, hist>>

\* run, lines 339-340: the election timer fires (the case of line 339 is read
\* as a receive from the channel of time.After), rf.state = CANDIDATE, and run
\* returns: there is no loop around the switch and no Unlock for line 310.
FollowerTimeout(r) ==
    /\ ~crashed
    /\ runPc[r] = "follower_select"
    /\ state' = [state EXCEPT ![r] = CANDIDATE]
    /\ runPc' = [runPc EXCEPT ![r] = "done"]
    /\ firedEpoch' = [firedEpoch EXCEPT ![r] = timerEpoch[r]]
    /\ hist' = [hist EXCEPT ![r] =
                    Append(@, [term |-> currentTerm[r], state |-> CANDIDATE])]
    /\ UNCHANGED <<rfVars, mu, calls, crashed, timerEpoch>>

\* ---- invocations of the exported methods ----------------------------------

NewCall(kind, r, args, pc) ==
    [kind |-> kind, srv |-> r, pc |-> pc, args |-> args, reply |-> NoReply,
     pre |-> Snapshot(r), post |-> Snapshot(r)]

InFlight == BagToSet(calls)

\* The invocation c goes on as d.
Replace(c, d) == (calls (-) SetToBag({c})) (+) SetToBag({d})

\* The caller of an invocation that has returned takes its result.
Reply(c) ==
    /\ ~crashed
    /\ c.pc = "done"
    /\ calls' = calls (-) SetToBag({c})
    /\ UNCHANGED <<rfVars, state, mu, runPc, crashed, timerEpoch, firedEpoch, hist>>

\* The requests a peer can be sent: the last log position is (0, 0) for an
\* empty log, and no entry carries a term above the sender's own.
RequestVoteArgs ==
    {a \in [term : ArgTerms, candidateId : Peers, lastLogIndex : ArgIdx,
            lastLogTerm : 0 .. MaxTerm] :
        /\ (a.lastLogIndex = 0) = (a.lastLogTerm = 0)
        /\ a.lastLogTerm <= a.term \/ a.lastLogTerm = 0}

AppendEntriesArgs == [term : ArgTerms, leaderId : Peers]

\* ---- RequestVote --------------------------------------------------------

\* A RequestVote RPC is delivered to peer r: the handler starts at line 150.
CallRequestVote(r, args) ==
    /\ ~crashed
    /\ BagCardinality(calls) < MaxCalls
    /\ args.candidateId # r
    /\ calls' = calls (+) SetToBag({NewCall("RequestVote", r, args, "lock")})
    /\ UNCHANGED <<rfVars, state, mu, runPc, crashed, timerEpoch, firedEpoch, hist>>

\* RequestVote, lines 154-155: the reply of the stale-term branch.
RejectReplyStale(r, args) == [term |-> args.term, vote |-> FALSE]
RejectReply(r, args) == [term |-> currentTerm[r], vote |-> FALSE]

\* RequestVote, lines 150-155: rf.mu.Lock(), then if rf.currentTerm >
\* args.term the reply is the rejection; otherwise line 156 is next.
RVTermCheck(c) ==
    /\ ~crashed
    /\ c.kind = "RequestVote"
    /\ c.pc = "lock"
    /\ mu[c.srv] = "free"
    /\ mu' = [mu EXCEPT ![c.srv] = "rpc"]
    /\ calls' = IF currentTerm[c.srv] > c.args.term
                   THEN Replace(c, [c EXCEPT !.pc = "unlock",
                                             !.reply = RejectReply(c.srv, c.args)])
                   ELSE Replace(c, [c EXCEPT !.pc = "log_check"])
    /\ UNCHANGED <<rfVars, state, runPc, crashed, timerEpoch, firedEpoch, hist>>

\* RequestVote, lines 156-162: rf.logs[len(rf.logs)-1].index is read.  On an
\* empty log the index is -1 and the read panics: the deferred Unlock runs
\* and the unrecovered panic ends the process.  Otherwise the vote is
\* refused when the voter's last index is greater than args.lastLogIndex and
\* granted if not.
RVLogCheck(c) ==
    /\ ~crashed
    /\ c.kind = "RequestVote"
    /\ c.pc = "log_check"
    /\ IF Len(logs[c.srv]) = 0
          THEN /\ calls' = Replace(c, [c EXCEPT !.pc = "panicked"])
               /\ mu' = [mu EXCEPT ![c.srv] = "free"]
               /\ crashed' = TRUE
          ELSE /\ calls' = Replace(c, [c EXCEPT !.pc = "unlock",
                      !.reply = [term |-> currentTerm[c.srv],
                                 vote |-> ~(logs[c.srv][Len(logs[c.srv])].index
                                               > c.args.lastLogIndex)]])
               /\ UNCHANGED <<mu, crashed>>
    /\ UNCHANGED <<rfVars, state, runPc, timerEpoch, firedEpoch, hist>>

\* RequestVote, line 151 (defer rf.mu.Unlock()) and the return at line 163.
RVReturn(c) ==
    /\ ~crashed
    /\ c.kind = "RequestVote"
    /\ c.pc = "unlock"
    /\ mu' = [mu EXCEPT ![c.srv] = "free"]
    /\ calls' = Replace(c, [c EXCEPT !.pc = "done", !.post = Snapshot(c.srv)])
    /\ UNCHANGED <<rfVars, state, runPc, crashed, timerEpoch, firedEpoch, hist>>

\* ---- AppendEntries ------------------------------------------------------

\* An AppendEntries RPC is delivered to peer r.  The handler's only statement
\* is the send of line 171 on heartBeatCh, which is nil: the handler stays
\* at that statement and produces no reply.
CallAppendEntries(r, args) ==
    /\ ~crashed
    /\ BagCardinality(calls) < MaxCalls
    /\ args.leaderId # r
    /\ heartBeatCh = "nil"
    /\ calls' = calls (+)
                   SetToBag({NewCall("AppendEntries", r, args, "send_heartBeatCh")})
    /\ UNCHANGED <<rfVars, state, mu, runPc, crashed, timerEpoch, firedEpoch, hist>>

\* ---- GetState -----------------------------------------------------------

\* GetState is called on peer r: line 97 is next.
CallGetState(r) ==
    /\ ~crashed
    /\ BagCardinality(calls) < MaxCalls
    /\ calls' = calls (+) SetToBag({NewCall("GetState", r, NoArgs, "read_term")})
    /\ UNCHANGED <<rfVars, state, mu, runPc, crashed, timerEpoch, firedEpoch, hist>>

\* GetState, line 97: term = rf.currentTerm, read without rf.mu.
GSReadTerm(c) ==
    /\ ~crashed
    /\ c.kind = "GetState"
    /\ c.pc = "read_term"
    /\ calls' = Replace(c, [c EXCEPT !.pc = "read_state",
                    !.reply = [term |-> currentTerm[c.srv], isleader |-> FALSE]])
    /\ UNCHANGED <<rfVars, state, mu, runPc, crashed, timerEpoch, firedEpoch, hist>>

\* GetState, line 98: the value of isleader.
IsLeaderNotFollower(r) == state[r] # FOLLOWER
IsLeaderRead(r) == state[r] = LEADER

\* GetState, lines 98-100: isleader = rf.state == LEADER, read without
\* rf.mu, and the return.  The read races with the write of line 340; it
\* yields the value before or after that write, which are the two
\* interleavings of this step with FollowerTimeout.
GSReadState(c) ==
    /\ ~crashed
    /\ c.kind = "GetState"
    /\ c.pc = "read_state"
    /\ calls' = Replace(c, [c EXCEPT !.pc = "done",
                    !.reply = [term |-> c.reply.term,
                               isleader |-> IsLeaderRead(c.srv)],
                    !.post = Snapshot(c.srv)])
    /\ UNCHANGED <<rfVars, state, mu, runPc, crashed, timerEpoch, firedEpoch, hist>>

\* ---- Start --------------------------------------------------------------

\* Start, lines 267-276: index := -1, term := -1, isLeader := true, return.
\* No field of rf is read or written.
Start(r) ==
    /\ ~crashed
    /\ BagCardinality(calls) < MaxCalls
    /\ calls' = calls (+) SetToBag({[NewCall("Start", r, NoArgs, "done") EXCEPT
                        !.reply = [index |-> -1, term |-> -1, isLeader |-> TRUE]]})
    /\ UNCHANGED <<rfVars, state, mu, runPc, crashed, timerEpoch, firedEpoch, hist>>

Next ==
    \/ \E r \in Peers : RunSwitch(r)
    \/ \E r \in Peers : FollowerTimeout(r)
    \/ \E r \in Peers, args \in RequestVoteArgs : CallRequestVote(r, args)
    \/ \E c \in InFlight : RVTermCheck(c)
    \/ \E c \in InFlight : RVLogCheck(c)
    \/ \E c \in InFlight : RVReturn(c)
    \/ \E r \in Peers, args \in AppendEntriesArgs : CallAppendEntries(r, args)
    \/ \E r \in Peers : CallGetState(r)
    \/ \E c \in InFlight : GSReadTerm(c)
    \/ \E c \in InFlight : GSReadState(c)
    \/ \E r \in Peers : Start(r)
    \/ \E c \in InFlight : Reply(c)

Spec == Init /\ [][Next]_vars

\* ---- Kill ----------------------------------------------------------------

\* Kill, lines 284-286: the body is empty.  The call returns at once and no
\* field of rf is touched; killed only records that it happened.
Kill(r) ==
    /\ ~crashed
    /\ ~killed[r]
    /\ killed' = [killed EXCEPT ![r] = TRUE]
    /\ UNCHANGED <<currentTerm, votedFor, logs, voteCount, committedIndex,
                   lastApplied, applych, state, mu, runPc, calls, crashed,
                   timerEpoch, firedEpoch, hist>>

\* The program with a tester that may call Kill.
NextKill ==
    \/ Next
    \/ \E r \in Peers : Kill(r)

SpecKill == Init /\ [][NextKill]_vars

\* ---- scheduling ----------------------------------------------------------

\* The Go scheduler runs every goroutine that can take a step: the run
\* goroutine of each peer, and the goroutine of each invocation in flight.
\* Nothing obliges the environment to make a call.
Fairness ==
    /\ \A r \in Peers : WF_vars(RunSwitch(r)) /\ WF_vars(FollowerTimeout(r))
    /\ WF_vars(\E c \in InFlight :
                  \/ RVTermCheck(c) \/ RVLogCheck(c) \/ RVReturn(c)
                  \/ GSReadTerm(c) \/ GSReadState(c) \/ Reply(c))

FairSpec == Spec /\ Fairness

\* ---- what the program can reach -------------------------------------------

\* votedFor = -1 stands for "no vote" (line 331).
None == -1

\* The invocations of one method.
CallsOf(kind) == {c \in InFlight : c.kind = kind}

\* No peer is ever LEADER: rf.state = LEADER is line 329, inside the CANDIDATE
\* case of run, and run is executed once, by Make, with rf.state = FOLLOWER.
NoLeader == \A r \in Peers : state[r] # LEADER

\* No statement assigns rf.logs, and rf.currentTerm is assigned only at line
\* 318, inside the CANDIDATE case of run.
LogsStayEmpty == \A r \in Peers : logs[r] = <<>> /\ currentTerm[r] = 0

\* RequestVote never replies vote = true: with an empty log line 156 panics.
NoVoteGranted ==
    \A c \in CallsOf("RequestVote") :
        c.pc \in {"unlock", "done"} => c.reply.vote = FALSE

\* run takes only the FOLLOWER case of its switch: it never reaches line 314,
\* 321 or 335, so broadcastAppendEntries, broadcastRequestVote and
\* sendRequestVote are never started and no peer Call is ever in flight.
OnlyFollowerBranch ==
    \A r \in Peers :
        /\ runPc[r] \in {"lock", "follower_select", "done"}
        /\ runPc[r] = "done" => firedEpoch[r] > 0

\* Nothing is ever committed or applied: no statement assigns
\* rf.committedIndex or rf.lastApplied, and none sends on rf.applych.
NothingApplied ==
    \A r \in Peers :
        committedIndex[r] = 0 /\ lastApplied[r] = 0 /\ applych[r] = <<>>

\* ---- claims ---------------------------------------------------------------

\* C5: once a peer has compared the term of an inbound RequestVote or
\* AppendEntries that is greater than its currentTerm, and before it decides
\* the vote, its currentTerm is the carried term, it is FOLLOWER and its
\* votedFor is cleared.
C5_HigherTermAdopted ==
    \A c \in CallsOf("RequestVote") \cup CallsOf("AppendEntries") :
        /\ c.args.term > c.pre.currentTerm
        /\ c.pc \in {"log_check", "unlock", "panicked"}
        => /\ currentTerm[c.srv] = c.args.term
           /\ state[c.srv] = FOLLOWER
           /\ votedFor[c.srv] = None

\* C6: a RequestVote whose term is less than the receiver's currentTerm is
\* answered vote = false with the receiver's currentTerm, and the receiver's
\* currentTerm, votedFor, state, logs and election timer are, when the call
\* returns, what they were when it arrived.
C6_StaleRequestVoteRejected ==
    \A c \in CallsOf("RequestVote") :
        c.args.term < c.pre.currentTerm =>
           /\ c.pc \in {"unlock", "done"} =>
                 c.reply = [term |-> c.pre.currentTerm, vote |-> FALSE]
           /\ c.pc = "done" => c.post = c.pre
           /\ c.pc # "panicked"

C6_Witness ==
    \E c \in CallsOf("RequestVote") :
        /\ c.args.term < c.pre.currentTerm
        /\ c.pc = "done"
        /\ c.reply.vote = FALSE

\* C7: Start on a peer that is not LEADER returns isLeader = false and the
\* peer's currentTerm, and changes nothing of the peer.
C7_StartOnNonLeaderRejected ==
    \A c \in CallsOf("Start") :
        c.pc = "done" /\ c.pre.state # LEADER =>
           /\ c.reply.isLeader = FALSE
           /\ c.reply.term = c.pre.currentTerm
           /\ c.post = c.pre

\* C9: GetState never waits, and the pair it returns is the pair
\* (currentTerm, state = LEADER) the peer held at one instant between the
\* call and its return, whatever changed meanwhile.
C9_GetStateSnapshot ==
    \A c \in CallsOf("GetState") :
        /\ c.pc # "done" /\ ~crashed =>
              ENABLED (GSReadTerm(c) \/ GSReadState(c))
        /\ c.pc = "done" =>
              \E i \in c.pre.histLen .. c.post.histLen :
                 /\ hist[c.srv][i].term = c.reply.term
                 /\ (hist[c.srv][i].state = LEADER) = c.reply.isleader

\* A GetState that returned after rf.state changed during the call.
C9_Witness ==
    \E c \in CallsOf("GetState") :
        /\ c.pc = "done"
        /\ c.post.histLen > c.pre.histLen
        /\ c.post.state # c.pre.state

\* C10: a FOLLOWER that has received an AppendEntries whose term is not
\* below its currentTerm becomes CANDIDATE only on a timer armed after that
\* AppendEntries arrived, never on the deadline that was pending.
C10_HeartbeatResetsTimer ==
    \A c \in CallsOf("AppendEntries") :
        /\ c.args.term >= c.pre.currentTerm
        /\ c.pre.state = FOLLOWER
        /\ state[c.srv] = CANDIDATE
        => firedEpoch[c.srv] > c.pre.timerEpoch

\* C12: once Kill has returned on a peer, no step fires its election timer
\* or changes its state or its currentTerm.
C12_KilledPeerIsQuiet ==
    [][\A r \in Peers :
          killed[r] => /\ firedEpoch'[r] = firedEpoch[r]
                       /\ state'[r] = state[r]
                       /\ currentTerm'[r] = currentTerm[r]]_vars

\* C16: a peer that is CANDIDATE has voted for itself, and its currentTerm
\* is one more than the term it held before the election timeout that made
\* it CANDIDATE.
C16_CandidateVotedForItself ==
    \A r \in Peers :
        state[r] = CANDIDATE =>
           /\ votedFor[r] = r
           /\ currentTerm[r] = hist[r][Len(hist[r]) - 1].term + 1

\* C18: the state-transition loop of a peer ends only on shutdown: run has
\* not returned on a peer that has not been killed.
C18_RunLoopPerpetual ==
    \A r \in Peers : runPc[r] = "done" => killed[r]

\* An AppendEntries in flight whose term is below the receiver's currentTerm.
StaleAppendEntries(c) ==
    c.kind = "AppendEntries" /\ c.args.term < c.pre.currentTerm

\* C20: an AppendEntries whose term is less than the receiver's currentTerm
\* is answered success = false with the receiver's currentTerm, having
\* changed nothing of the receiver.
C20_StaleAppendEntriesRejected ==
    (\E c \in InFlight : StaleAppendEntries(c) /\ c.pc # "done")
    ~> (\E c \in InFlight :
           /\ StaleAppendEntries(c)
           /\ c.pc = "done"
           /\ c.reply = [term |-> c.pre.currentTerm, success |-> FALSE]
           /\ c.post = c.pre)

\* An RPC delivered to a peer of a running process and not answered yet.
PendingRPC ==
    /\ ~crashed
    /\ \E c \in InFlight :
          c.kind \in {"RequestVote", "AppendEntries"} /\ c.pc # "done"

\* C22: no activity that has ended still holds rf.mu, and every RequestVote
\* and AppendEntries delivered to a peer of a running process is eventually
\* answered.
C22_HandlersTerminate ==
    /\ [](\A r \in Peers : runPc[r] = "done" => mu[r] # "run")
    /\ (PendingRPC ~> ~PendingRPC)

\* C23: whenever RequestVote reads rf.logs[len(rf.logs)-1] the log is not
\* empty, so the read never panics.
C23_LastLogLookupInBounds ==
    /\ ~crashed
    /\ \A c \in CallsOf("RequestVote") :
          c.pc = "log_check" => Len(logs[c.srv]) >= 1
====
